---- MODULE Spec2Model ----
(***************************************************************************)
(* Model of ubuntu-linux-changelog-filter (main.go): the line-oriented     *)
(* changelog parser (parseChangelog), the filter (filterEntries), the      *)
(* renderer (Entry.String) and the driver (run).                           *)
(*                                                                         *)
(* Text is modelled by TLA+ strings, character by character: the prefix    *)
(* tests, the two regular expressions and the date layout are computed on  *)
(* the characters of a line, never assumed.                                *)
(***************************************************************************)
EXTENDS Integers, Sequences, FiniteSets, TLC

VARIABLES
    pc,         \* position of run: "compile", "parse", "filter", "print", "done"
    filterRE,   \* run: the compiled pattern (Nil before regexp.Compile)
    opened,     \* run: the input (os.Stdin or the file) has been opened
    consumed,   \* the reader: the newline-terminated lines ReadString has returned
    tail,       \* the reader: the unterminated text returned together with io.EOF
    state,      \* parseChangelog: state
    entries,    \* parseChangelog: entries; after the parse, run's entries
    entry,      \* parseChangelog: *entry (the in-progress Entry, Nil before the first header)
    change,     \* parseChangelog: *change (pointer into an Entry's Changes)
    detail,     \* parseChangelog: *detail (pointer into a Change's Details)
    filtered,   \* run: filtered
    sharedLines, \* run: the Details of filtered whose Lines slice is the array of a Detail of entries
    out,        \* run: the text written to standard output
    err         \* run: the returned error (Nil when none)

vars == <<pc, filterRE, opened, consumed, tail, state, entries, entry, change, detail,
          filtered, sharedLines, out, err>>

Nil == [nil |-> TRUE]

-----------------------------------------------------------------------------
(* Bounds of the model.                                                    *)

MaxLines == 5   \* lines the reader supplies before end of stream
MaxNodes == 5   \* entries + changes + detail lines of a filter input tree
MaxProbe == 6   \* characters of the texts the prefix tests are probed with

-----------------------------------------------------------------------------
(* Strings.                                                                *)

\* the character at position i ("" outside the string)
Ch(s, i) == IF i >= 1 /\ i <= Len(s) THEN SubSeq(s, i, i) ELSE ""

From(s, i) == IF i <= Len(s) THEN SubSeq(s, i, Len(s)) ELSE ""

\* strings.HasPrefix
HasPrefix(s, p) == Len(s) >= Len(p) /\ SubSeq(s, 1, Len(p)) = p

\* strings.TrimRight(s, "\n")
TrimRight(s) ==
    LET n == CHOOSE k \in 0..Len(s) :
                 /\ \A j \in (k + 1)..Len(s) : Ch(s, j) = "\n"
                 /\ (k = 0 \/ Ch(s, k) # "\n")
    IN  SubSeq(s, 1, n)

\* the value of F at v, v computed once
Let(v, F(_)) == CHOOSE r \in {F(x) : x \in {v}} : TRUE

\* number of consecutive characters equal to c, starting at position i
RunOf(s, i, c) ==
    (CHOOSE k \in i..(Len(s) + 1) :
        /\ (k > Len(s) \/ SubSeq(s, k, k) # c)
        /\ \A j \in i..(k - 1) : SubSeq(s, j, j) = c) - i

\* number of consecutive characters different from c, starting at position i
RunNot(s, i, c) ==
    (CHOOSE k \in i..(Len(s) + 1) :
        /\ (k > Len(s) \/ SubSeq(s, k, k) = c)
        /\ \A j \in i..(k - 1) : SubSeq(s, j, j) # c) - i

\* s contains t as a substring
Contains(s, t) ==
    \E i \in 1..(Len(s) - Len(t) + 1) : SubSeq(s, i, i + Len(t) - 1) = t

-----------------------------------------------------------------------------
(* Constants of main.go.                                                   *)

changePrefix == "  * "
detailHeadPrefix == "    - "
\* a detail-tail prefix of four blanks, which a detail-head line starts with
detailTailPrefix_Short == "    "
detailTailPrefix == "      "
maintainerLinePrefix == " -- "

parseStateInitial == "Initial"
parseStateInEntry == "InEntry"
parseStateInChange == "InChange"
parseStateInDetail == "InDetail"

-----------------------------------------------------------------------------
(* time.Time with the layout entryDateFormat                               *)
(* "Mon, 02 Jan 2006 15:04:05 -0700".  A time value is represented by the  *)
(* text of its date, clock and zone ("05 May 2022 10:00:00 +0000"); the    *)
(* weekday is not part of the value: time.Parse reads a weekday name and   *)
(* discards it, time.Format computes it from the date.                     *)

shortDayNames == {"Sun", "Mon", "Tue", "Wed", "Thu", "Fri", "Sat"}

\* the instants of the model, with the weekday the calendar gives them
WeekdayOf ==
    [t \in {"01 Jan 0001 00:00:00 +0000", "05 May 2022 10:00:00 +0000"} |->
        IF t = "05 May 2022 10:00:00 +0000" THEN "Thu" ELSE "Mon"]

ZeroTime == "01 Jan 0001 00:00:00 +0000"

\* time.Parse(entryDateFormat, s): [ok, t]
ParseDate(s) ==
    IF /\ Len(s) > 5
       /\ SubSeq(s, 1, 3) \in shortDayNames
       /\ SubSeq(s, 4, 5) = ", "
       /\ From(s, 6) \in DOMAIN WeekdayOf
    THEN [ok |-> TRUE, t |-> From(s, 6)]
    ELSE [ok |-> FALSE, t |-> ZeroTime]

\* t.Format(entryDateFormat)
FormatDate(t) == WeekdayOf[t] \o ", " \o t

-----------------------------------------------------------------------------
(* The data model.                                                         *)

\* Entry{} with the header fields set, as parseEntryLine builds it
NewEntry(pkg, ver, dists, meta) ==
    [Package |-> pkg, Version |-> ver, Distributions |-> dists,
     Metadata |-> meta, MaintainerName |-> "", EmailAddress |-> "",
     Date |-> ZeroTime, Changes |-> <<>>]

NewChange(summary) == [Summary |-> summary, Details |-> <<>>]

NewDetail(line) == [Lines |-> <<line>>]

-----------------------------------------------------------------------------
(* The two line patterns.                                                  *)

\* entryLineRegex  ^([^ ]+) +\(([^)]+)\) +([^;]+); +(.*)
\* The result is [ok, m], m the four submatches of the leftmost-first match.
\*   a: ([^ ]+)   b: " +"   c: ([^)]+)   d: " +"   e: [^;]* after the blanks
\*   f: " +" after the semicolon
\* When the blanks after ")" run up to the semicolon (e = 0), " +" gives its
\* last blank back to ([^;]+).
entryLineRegex(line) ==
    Let(RunNot(line, 1, " "), LAMBDA a :
    IF a < 1 \/ a >= Len(line) THEN [ok |-> FALSE, m |-> <<>>] ELSE
    Let(RunOf(line, a + 1, " "), LAMBDA b :
    IF b < 1 \/ Ch(line, a + b + 1) # "(" THEN [ok |-> FALSE, m |-> <<>>] ELSE
    Let(RunNot(line, a + b + 2, ")"), LAMBDA c :
    IF c < 1 \/ a + b + c + 2 > Len(line) THEN [ok |-> FALSE, m |-> <<>>] ELSE
    Let(RunOf(line, a + b + c + 3, " "), LAMBDA d :
    IF d < 1 THEN [ok |-> FALSE, m |-> <<>>] ELSE
    Let(RunNot(line, a + b + c + d + 3, ";"), LAMBDA e :
    IF (e = 0 /\ d < 2) \/ a + b + c + d + e + 3 > Len(line)
    THEN [ok |-> FALSE, m |-> <<>>] ELSE
    Let(RunOf(line, a + b + c + d + e + 4, " "), LAMBDA f :
    LET lp == a + b + 1                      \* \(
        rp == lp + c + 1                     \* \)
        p3 == IF e = 0 THEN rp + d ELSE rp + d + 1
        sc == rp + d + 1 + e                 \* ;
    IN  IF f < 1 THEN [ok |-> FALSE, m |-> <<>>]
        ELSE [ok |-> TRUE,
              m  |-> <<SubSeq(line, 1, a),
                       SubSeq(line, lp + 1, rp - 1),
                       SubSeq(line, p3, sc - 1),
                       From(line, sc + f + 1)>>]))))))

\* maintainerLineRegex  ^ -- ([^<]+) +<([^>]+)> +(.*)
\*   g: [^<]* after the prefix   h: ([^>]+)   k: " +" after ">"
\* ([^<]+) is greedy: of the characters before "<" it gives back exactly one
\* blank to " +".
maintainerLineRegex(line) ==
    IF ~HasPrefix(line, maintainerLinePrefix) THEN [ok |-> FALSE, m |-> <<>>]
    ELSE
    Let(RunNot(line, Len(maintainerLinePrefix) + 1, "<"), LAMBDA g :
    LET s  == Len(maintainerLinePrefix) + 1
        lt == s + g                          \* <
    IN  IF g < 2 \/ lt > Len(line) \/ Ch(line, lt - 1) # " "
        THEN [ok |-> FALSE, m |-> <<>>] ELSE
    Let(RunNot(line, lt + 1, ">"), LAMBDA h :
    IF h < 1 \/ lt + h + 1 > Len(line) THEN [ok |-> FALSE, m |-> <<>>] ELSE
    Let(RunOf(line, lt + h + 2, " "), LAMBDA k :
    IF k < 1 THEN [ok |-> FALSE, m |-> <<>>]
    ELSE [ok |-> TRUE,
          m  |-> <<SubSeq(line, s, lt - 2),
                   SubSeq(line, lt + 1, lt + h),
                   From(line, lt + h + k + 2)>>])))

\* parseEntryLine accepting a line that does not match
parseEntryLine_Lenient(line) ==
    Let(entryLineRegex(line), LAMBDA r :
        IF r.ok
        THEN [ok |-> TRUE, e |-> NewEntry(r.m[1], r.m[2], r.m[3], r.m[4])]
        ELSE [ok |-> TRUE, e |-> NewEntry("", "", "", "")])

\* parseEntryLine: [ok, e]
parseEntryLine(line) ==
    Let(entryLineRegex(line), LAMBDA r :
        IF r.ok
        THEN [ok |-> TRUE, e |-> NewEntry(r.m[1], r.m[2], r.m[3], r.m[4])]
        ELSE [ok |-> FALSE, e |-> Nil])

\* parseMaintainerLine: [ok, e], e the Entry as the call leaves it
parseMaintainerLine(e, line) ==
    Let(maintainerLineRegex(line), LAMBDA r :
        IF ~r.ok
        THEN [ok |-> FALSE, e |-> e]
        ELSE LET e1 == [e EXCEPT !.MaintainerName = r.m[1],
                                 !.EmailAddress = r.m[2]]
                 d  == ParseDate(r.m[3])
             IN  IF d.ok
                 THEN [ok |-> TRUE, e |-> [e1 EXCEPT !.Date = d.t]]
                 ELSE [ok |-> FALSE, e |-> e1])

-----------------------------------------------------------------------------
(* parseChangelog.  p is the record of its locals                          *)
(* [state, entries, entry, change, detail, err].                           *)
(*                                                                         *)
(* Pointers: entry is the Entry object itself; change = &e.Changes[i] is   *)
(* [ent, idx] and detail = &c.Details[j] is [ent, chg, idx], ent being the *)
(* ordinal of the Entry object whose Changes array the pointer points      *)
(* into.  entries = append(entries, *entry) copies the Entry struct, so    *)
(* entries[n].Changes shares its array with Entry object n: a write        *)
(* through a pointer into object n is a write to entries[n] once object n  *)
(* has been appended.                                                      *)

\* ordinal of the Entry object that entry points to
EntryOrd(p) ==
    IF p.state = parseStateInitial THEN Len(p.entries) ELSE Len(p.entries) + 1

\* *change, *detail
ChangeAt(p, c) ==
    IF c.ent <= Len(p.entries)
    THEN p.entries[c.ent].Changes[c.idx]
    ELSE p.entry.Changes[c.idx]

DetailAt(p, d) == ChangeAt(p, [ent |-> d.ent, idx |-> d.chg]).Details[d.idx]

\* change.Details = ds
SetDetails(p, c, ds) ==
    [p EXCEPT
       !.entries = IF c.ent <= Len(@)
                   THEN [@ EXCEPT ![c.ent].Changes[c.idx].Details = ds]
                   ELSE @,
       !.entry   = IF c.ent = EntryOrd(p)
                   THEN [@ EXCEPT !.Changes[c.idx].Details = ds]
                   ELSE @]

\* detail.Lines = ls
SetLines(p, d, ls) ==
    SetDetails(p, [ent |-> d.ent, idx |-> d.chg],
               [ChangeAt(p, [ent |-> d.ent, idx |-> d.chg]).Details
                   EXCEPT ![d.idx].Lines = ls])

processChangeLine(p, line) ==
    [p EXCEPT
       !.entry.Changes = Append(@, NewChange(From(line, Len(changePrefix) + 1))),
       !.change = [ent |-> EntryOrd(p), idx |-> Len(p.entry.Changes) + 1],
       !.state  = parseStateInChange]

\* processDetailHeadLine adding the Detail to the first Change of the Entry
processDetailHeadLine_FirstChange(p, line) ==
    LET c1 == [ent |-> p.change.ent, idx |-> 1]
        ds == Append(ChangeAt(p, c1).Details,
                     NewDetail(From(line, Len(detailHeadPrefix) + 1)))
    IN  [SetDetails(p, c1, ds) EXCEPT
           !.detail = [ent |-> c1.ent, chg |-> c1.idx, idx |-> Len(ds)],
           !.state  = parseStateInDetail]

processDetailHeadLine(p, line) ==
    LET ds == Append(ChangeAt(p, p.change).Details,
                     NewDetail(From(line, Len(detailHeadPrefix) + 1)))
    IN  [SetDetails(p, p.change, ds) EXCEPT
           !.detail = [ent |-> p.change.ent, chg |-> p.change.idx,
                       idx |-> Len(ds)],
           !.state  = parseStateInDetail]

processDetailTailLine(p, line) ==
    SetLines(p, p.detail,
             Append(DetailAt(p, p.detail).Lines,
                    From(line, Len(detailTailPrefix) + 1)))

\* the error values
Error(msg) == [error |-> msg]

EntryLineError(line) == Error("invalid format entry line: " \o line)

MaintainerLineError(line) ==
    Let(maintainerLineRegex(line), LAMBDA r :
        IF r.ok
        THEN Error("parse date: " \o r.m[3] \o ", cannot parse")
        ELSE Error("invalid format maintainer line: " \o line))

\* processMaintainerLine appending the Entry before its trailer is parsed
processMaintainerLine_AppendFirst(p, line) ==
    Let(parseMaintainerLine(p.entry, line), LAMBDA r :
        IF ~r.ok
        THEN [p EXCEPT !.entry = r.e, !.err = MaintainerLineError(line)]
        ELSE [p EXCEPT !.entry   = r.e,
                       !.entries = Append(@, p.entry),
                       !.state   = parseStateInitial])

\* processMaintainerLine without state = parseStateInitial: the lines that
\* follow are written through the pointers into the appended Entry
processMaintainerLine_KeepState(p, line) ==
    Let(parseMaintainerLine(p.entry, line), LAMBDA r :
        IF ~r.ok
        THEN [p EXCEPT !.entry = r.e, !.err = MaintainerLineError(line)]
        ELSE [p EXCEPT !.entry   = r.e,
                       !.entries = Append(@, r.e)])

processMaintainerLine(p, line) ==
    Let(parseMaintainerLine(p.entry, line), LAMBDA r :
        IF ~r.ok
        THEN [p EXCEPT !.entry = r.e, !.err = MaintainerLineError(line)]
        ELSE [p EXCEPT !.entry   = r.e,
                       !.entries = Append(@, r.e),
                       !.state   = parseStateInitial])

\* the switch of the read loop, for a non-empty line
ProcessLine(p, line) ==
    CASE p.state = parseStateInitial ->
            Let(parseEntryLine(line), LAMBDA r :
                IF ~r.ok
                THEN [p EXCEPT !.entry = Nil, !.err = EntryLineError(line)]
                ELSE [p EXCEPT !.entry = r.e, !.state = parseStateInEntry])
      [] p.state = parseStateInEntry ->
            IF HasPrefix(line, changePrefix) THEN processChangeLine(p, line)
            ELSE IF HasPrefix(line, maintainerLinePrefix)
                 THEN processMaintainerLine(p, line)
            ELSE p
      [] p.state = parseStateInChange ->
            IF HasPrefix(line, changePrefix) THEN processChangeLine(p, line)
            ELSE IF HasPrefix(line, detailHeadPrefix)
                 THEN processDetailHeadLine(p, line)
            ELSE IF HasPrefix(line, maintainerLinePrefix)
                 THEN processMaintainerLine(p, line)
            ELSE p
      [] p.state = parseStateInDetail ->
            IF HasPrefix(line, changePrefix) THEN processChangeLine(p, line)
            ELSE IF HasPrefix(line, detailHeadPrefix)
                 THEN processDetailHeadLine(p, line)
            ELSE IF HasPrefix(line, detailTailPrefix)
                 THEN processDetailTailLine(p, line)
            ELSE IF HasPrefix(line, maintainerLinePrefix)
                 THEN processMaintainerLine(p, line)
            ELSE p

\* the Entry sequence parseChangelog returns with the locals p:
\* return nil, err and return entries, nil
ParseReturn_Partial(p) == p.entries

ParseReturn(p) == IF p.err # Nil THEN <<>> ELSE p.entries

\* the loop body with a detail-head line in InEntry made an error
ParseStep_StrictDetail(p, raw) ==
    Let(TrimRight(raw), LAMBDA line :
        IF Len(line) = 0 THEN p
        ELSE IF p.state = parseStateInEntry /\ HasPrefix(line, detailHeadPrefix)
             THEN [p EXCEPT !.err = Error("detail without change: " \o line)]
        ELSE ProcessLine(p, line))

\* the loop body with the header rule tried in every state
ParseStep_HeaderAnywhere(p, raw) ==
    Let(TrimRight(raw), LAMBDA line :
        IF Len(line) = 0 THEN p
        ELSE IF entryLineRegex(line).ok
             THEN ProcessLine([p EXCEPT !.state = parseStateInitial], line)
        ELSE ProcessLine(p, line))

\* one iteration of the read loop on the text raw that ReadString returned
\* together with a nil error
ParseStep(p, raw) ==
    Let(TrimRight(raw), LAMBDA line :
        IF Len(line) = 0 THEN p ELSE ProcessLine(p, line))

\* the locals of parseChangelog before the loop
ParseStart ==
    [state |-> parseStateInitial, entries |-> <<>>, entry |-> Nil,
     change |-> Nil, detail |-> Nil, err |-> Nil]

\* the locals of parseChangelog after the newline-terminated lines ls
RECURSIVE ParseLines(_, _)
ParseLines(p, ls) ==
    IF ls = <<>> \/ p.err # Nil THEN p
    ELSE Let(ParseStep(p, Head(ls) \o "\n"),
             LAMBDA q : ParseLines(q, Tail(ls)))

-----------------------------------------------------------------------------
(* regexp: the patterns of the model are ".", the literal texts and the    *)
(* unbalanced "(".                                                         *)

\* regexp.Compile: [ok, re]
Compile(src) ==
    CASE src = "." -> [ok |-> TRUE, re |-> [kind |-> "any", lit |-> ""]]
      [] src = "(" -> [ok |-> FALSE, re |-> Nil]
      [] OTHER     -> [ok |-> TRUE, re |-> [kind |-> "lit", lit |-> src]]

\* re.MatchString(s): an unanchored search
MatchString(re, s) ==
    IF re.kind = "any"
    THEN \E i \in 1..Len(s) : Ch(s, i) # "\n"
    ELSE Contains(s, re.lit)

\* Detail.Matches
Matches(d, re) == \E i \in 1..Len(d.Lines) : MatchString(re, d.Lines[i])

-----------------------------------------------------------------------------
(* filterEntries.  f is the record of its locals                           *)
(* [matchedEntries, matchedEntry, matchedChange]: matchedEntry is the      *)
(* index of the element of matchedEntries it points to (0 for nil),        *)
(* matchedChange = &matchedEntries[e].Changes[c] is [ent, idx] or Nil.     *)
(* sharedLines is the part of the heap the values do not show: the set of  *)
(* the Details [ent, chg, idx] of matchedEntries whose Lines slice has the *)
(* backing array of a Detail of the input.  Every other slice of           *)
(* matchedEntries is grown by append from nil, in an array of its own.     *)

\* appendChange copying the whole Change, its Details included
appendChange_CopyDetails(f, e, c) ==
    LET f1 == IF f.matchedEntry = 0
              THEN [f EXCEPT
                      !.matchedEntries = Append(@, [e EXCEPT !.Changes = <<>>]),
                      !.matchedEntry = Len(f.matchedEntries) + 1]
              ELSE f
        m  == f1.matchedEntry
    IN  [f1 EXCEPT
           !.matchedEntries[m].Changes = Append(@, c),
           !.matchedChange =
               [ent |-> m, idx |-> Len(f1.matchedEntries[m].Changes) + 1]]

\* appendChange taking the maintainer name for the email address
appendChange_WrongField(f, e, c) ==
    LET f1 == IF f.matchedEntry = 0
              THEN [f EXCEPT
                      !.matchedEntries =
                          Append(@, [e EXCEPT !.Changes = <<>>,
                                              !.EmailAddress = e.MaintainerName]),
                      !.matchedEntry = Len(f.matchedEntries) + 1]
              ELSE f
        m  == f1.matchedEntry
    IN  [f1 EXCEPT
           !.matchedEntries[m].Changes = Append(@, NewChange(c.Summary)),
           !.matchedChange =
               [ent |-> m, idx |-> Len(f1.matchedEntries[m].Changes) + 1]]

appendChange(f, e, c) ==
    LET f1 == IF f.matchedEntry = 0
              THEN [f EXCEPT
                      !.matchedEntries =
                          Append(@, [Package        |-> e.Package,
                                     Version        |-> e.Version,
                                     Distributions  |-> e.Distributions,
                                     Metadata       |-> e.Metadata,
                                     MaintainerName |-> e.MaintainerName,
                                     EmailAddress   |-> e.EmailAddress,
                                     Date           |-> e.Date,
                                     Changes        |-> <<>>]),
                      !.matchedEntry = Len(f.matchedEntries) + 1]
              ELSE f
        m  == f1.matchedEntry
    IN  [f1 EXCEPT
           !.matchedEntries[m].Changes = Append(@, NewChange(c.Summary)),
           !.matchedChange =
               [ent |-> m, idx |-> Len(f1.matchedEntries[m].Changes) + 1]]

\* appendDetail making a Change copy for every matching Detail
appendDetail_AlwaysNewChange(f, e, c, d) ==
    LET f1 == appendChange(f, e, c)
        mc == f1.matchedChange
    IN  [f1 EXCEPT
           !.matchedEntries[mc.ent].Changes[mc.idx].Details = Append(@, d)]

\* appendDetail putting the Detail in front
appendDetail_Prepend(f, e, c, d) ==
    LET f1 == IF f.matchedChange = Nil THEN appendChange(f, e, c) ELSE f
        mc == f1.matchedChange
    IN  [f1 EXCEPT
           !.matchedEntries[mc.ent].Changes[mc.idx].Details = <<d>> \o @]

\* the Detail struct is appended by value: the new element's Lines is the
\* slice header of d, that is the array of the Detail of the input
appendDetail(f, e, c, d) ==
    LET f1 == IF f.matchedChange = Nil THEN appendChange(f, e, c) ELSE f
        mc == f1.matchedChange
        n  == Len(f1.matchedEntries[mc.ent].Changes[mc.idx].Details)
    IN  [f1 EXCEPT
           !.matchedEntries[mc.ent].Changes[mc.idx].Details = Append(@, d),
           !.sharedLines = @ \cup {[ent |-> mc.ent, chg |-> mc.idx,
                                    idx |-> n + 1]}]

\* for _, detail := range change.Details
RECURSIVE FilterDetails(_, _, _, _, _)
FilterDetails(f, re, e, c, i) ==
    IF i > Len(c.Details) THEN f
    ELSE FilterDetails(IF Matches(c.Details[i], re)
                       THEN appendDetail(f, e, c, c.Details[i])
                       ELSE f,
                       re, e, c, i + 1)

\* the summary test without the else branch: matchedChange is not cleared
FilterSummary_KeepChange(f, re, e, c) ==
    IF MatchString(re, c.Summary) THEN appendChange(f, e, c) ELSE f

\* the summary test of one Change
FilterSummary(f, re, e, c) ==
    IF MatchString(re, c.Summary)
    THEN appendChange(f, e, c)
    ELSE [f EXCEPT !.matchedChange = Nil]

\* for _, change := range entry.Changes
RECURSIVE FilterChanges(_, _, _, _)
FilterChanges(f, re, e, i) ==
    IF i > Len(e.Changes) THEN f
    ELSE FilterChanges(FilterDetails(FilterSummary(f, re, e, e.Changes[i]),
                                     re, e, e.Changes[i], 1),
                       re, e, i + 1)

\* the loop body without matchedEntry = nil
FilterEntryStart_NoReset(f) == f

\* the start of the body of the loop over the entries
FilterEntryStart(f) == [f EXCEPT !.matchedEntry = 0]

\* for _, entry := range entries
RECURSIVE FilterLoop(_, _, _, _)
FilterLoop(f, re, es, i) ==
    IF i > Len(es) THEN f
    ELSE FilterLoop(FilterChanges(FilterEntryStart(f), re, es[i], 1),
                    re, es, i + 1)

\* the locals of filterEntries at its return
filterLocals(es, re) ==
    FilterLoop([matchedEntries |-> <<>>, matchedEntry |-> 0,
                matchedChange |-> Nil, sharedLines |-> {}], re, es, 1)

filterEntries(es, re) == filterLocals(es, re).matchedEntries

-----------------------------------------------------------------------------
(* Entry.String.                                                           *)

RECURSIVE Join(_, _)
Join(ls, sep) ==
    IF ls = <<>> THEN ""
    ELSE IF Len(ls) = 1 THEN ls[1]
    ELSE ls[1] \o sep \o Join(Tail(ls), sep)

RECURSIVE Flatten(_)
Flatten(ss) == IF ss = <<>> THEN <<>> ELSE Head(ss) \o Flatten(Tail(ss))

HeaderLine(e) ==
    e.Package \o " (" \o e.Version \o ") " \o e.Distributions \o "; "
        \o e.Metadata

DetailLines(d) ==
    [i \in 1..Len(d.Lines) |->
        (IF i > 1 THEN detailTailPrefix ELSE detailHeadPrefix) \o d.Lines[i]]

ChangeLines(c) ==
    <<changePrefix \o c.Summary>>
        \o Flatten([j \in 1..Len(c.Details) |-> DetailLines(c.Details[j])])

TrailerLine(e) ==
    maintainerLinePrefix \o e.MaintainerName \o " <" \o e.EmailAddress
        \o "> " \o FormatDate(e.Date)

\* the lines of e.String()
StringLines(e) ==
    <<HeaderLine(e)>>
        \o Flatten([i \in 1..Len(e.Changes) |-> ChangeLines(e.Changes[i])])
        \o <<TrailerLine(e)>>

\* e.String(): every line but the last ends with a newline
String(e) == Join(StringLines(e), "\n")

\* what the print loop of run writes for the entries es
Written(es) ==
    Join([i \in 1..Len(es) |-> String(es[i]) \o "\n"], "\n")

-----------------------------------------------------------------------------
(* The inputs of the model.                                                *)

\* the -filter arguments
PatternSet == {".", "detail", "zzz", "("}

\* the lines the reader supplies
LineSet ==
    {"linux (1) jammy; urgency=medium",
     "not a valid header",
     "  * Change A",
     "    - detail line 1",
     "      continuation",
     " -- Team <k@u.com>  Thu, 05 May 2022 10:00:00 +0000",
     " -- Team <k@u.com> Thu, 05 May 2022 10:00:00 +0000",
     " -- A B <a@b.com>  not-a-date",
     " -- nobody",
     ""}

\* the unterminated texts a stream can end with
TailSet == {"", " -- Team <k@u.com>  Thu, 05 May 2022 10:00:00 +0000"}

\* the compiled patterns filterEntries is given
FilterPatterns == {Compile(src).re : src \in {".", "detail", "zzz"}}

\* the texts of the Changes and Details filterEntries is given
Summaries == {"", "Change A", "fix detail"}

DetailTexts == {"", "detail line 1", "other"}

\* the header and trailer of the Entries filterEntries is given: those of
\* the odd and of the even entries of a changelog
EntryHeads ==
    [i \in 1..2 |->
        LET ht == <<<<"linux (1) jammy; urgency=medium",
                      " -- Team <k@u.com>  Thu, 05 May 2022 10:00:00 +0000">>,
                    <<"pkg (2) focal; low",
                      " -- A B <a@b.com>  Thu, 05 May 2022 10:00:00 +0000">>>>[i]
        IN  parseMaintainerLine(parseEntryLine(ht[1]).e, ht[2]).e]

\* the Detail sequences with w lines in all
RECURSIVE DetailSeqs(_)
DetailSeqs(w) ==
    IF w = 0 THEN {<<>>}
    ELSE UNION {{<<[Lines |-> ls]>> \o r :
                    ls \in [1..k -> DetailTexts], r \in DetailSeqs(w - k)} :
                k \in 1..w}

\* the Change sequences with w changes and detail lines in all
RECURSIVE ChangeSeqs(_)
ChangeSeqs(w) ==
    IF w = 0 THEN {<<>>}
    ELSE UNION {{<<[Summary |-> s, Details |-> ds]>> \o r :
                    s \in Summaries, ds \in DetailSeqs(k - 1),
                    r \in ChangeSeqs(w - k)} :
                k \in 1..w}

\* the Entry sequences with w entries, changes and detail lines in all,
\* the first of them being the i-th entry of the changelog
RECURSIVE EntrySeqs(_, _)
EntrySeqs(w, i) ==
    IF w = 0 THEN {<<>>}
    ELSE UNION {{<<[EntryHeads[2 - (i % 2)] EXCEPT !.Changes = cs]>> \o r :
                    cs \in ChangeSeqs(k - 1), r \in EntrySeqs(w - k, i + 1)} :
                k \in 1..w}

EntryTrees == UNION {EntrySeqs(w, 1) : w \in 0..MaxNodes}

-----------------------------------------------------------------------------
(* run.                                                                    *)

P == [state |-> state, entries |-> entries, entry |-> entry,
      change |-> change, detail |-> detail, err |-> Nil]

Init ==
    /\ pc = "compile"
    /\ filterRE = Nil
    /\ opened = FALSE
    /\ consumed = <<>>
    /\ tail = ""
    /\ state = ParseStart.state
    /\ entries = ParseStart.entries
    /\ entry = ParseStart.entry
    /\ change = ParseStart.change
    /\ detail = ParseStart.detail
    /\ filtered = <<>>
    /\ sharedLines = {}
    /\ out = ""
    /\ err = Nil

\* regexp.Compile with its error recorded and run going on to the input
CompileFilter_NoReturn ==
    /\ pc = "compile"
    /\ \E src \in PatternSet :
          LET r == Compile(src)
          IN  IF r.ok
              THEN /\ filterRE' = r.re
                   /\ pc' = "open"
                   /\ err' = err
              ELSE /\ filterRE' = filterRE
                   /\ pc' = "open"
                   /\ err' = Error("error parsing regexp: " \o src)
    /\ UNCHANGED <<sharedLines, opened, consumed, tail, state, entries, entry, change,
                   detail, filtered, out>>

\* filterRE, err := regexp.Compile(filter)
CompileFilter ==
    /\ pc = "compile"
    /\ \E src \in PatternSet :
          LET r == Compile(src)
          IN  IF r.ok
              THEN /\ filterRE' = r.re
                   /\ pc' = "open"
                   /\ err' = err
              ELSE /\ filterRE' = filterRE
                   /\ pc' = "done"
                   /\ err' = Error("error parsing regexp: " \o src)
    /\ UNCHANGED <<sharedLines, opened, consumed, tail, state, entries, entry, change,
                   detail, filtered, out>>

\* os.Stdin, or os.Open(filename) succeeding
OpenInput ==
    /\ pc = "open"
    /\ opened' = TRUE
    /\ pc' = "parse"
    /\ UNCHANGED <<sharedLines, filterRE, consumed, tail, state, entries, entry, change,
                   detail, filtered, out, err>>

\* os.Open(filename) failing
OpenFail ==
    /\ pc = "open"
    /\ err' = Error("open: no such file or directory")
    /\ pc' = "done"
    /\ UNCHANGED <<sharedLines, filterRE, opened, consumed, tail, state, entries, entry,
                   change, detail, filtered, out>>

\* one iteration of the read loop: ReadString returns a line and its newline
ReadLine ==
    /\ pc = "parse"
    /\ Len(consumed) < MaxLines
    /\ \E line \in LineSet : \E q \in {ParseStep(P, line \o "\n")} :
              /\ consumed' = Append(consumed, line)
              /\ state' = q.state
              /\ entry' = q.entry
              /\ change' = q.change
              /\ detail' = q.detail
              /\ entries' = ParseReturn(q)
              /\ IF q.err # Nil
                 THEN /\ err' = q.err
                      /\ pc' = "done"
                 ELSE /\ err' = err
                      /\ pc' = pc
    /\ UNCHANGED <<sharedLines, filterRE, opened, tail, filtered, out>>

\* ReadString returns io.EOF, with the unterminated text before it:
\* the loop is left and parseChangelog returns entries, nil
ReadEOF ==
    /\ pc = "parse"
    /\ \E t \in TailSet : tail' = t
    /\ pc' = "filter"
    /\ UNCHANGED <<sharedLines, filterRE, opened, consumed, state, entries, entry, change,
                   detail, filtered, out, err>>

\* ReadString returns another error: return nil, err
ReadError ==
    /\ pc = "parse"
    /\ entries' = <<>>
    /\ err' = Error("read error")
    /\ pc' = "done"
    /\ UNCHANGED <<sharedLines, filterRE, opened, consumed, tail, state, entry, change,
                   detail, filtered, out>>

\* filtered, err := filterEntries(entries, filterRE)
Filter ==
    /\ pc = "filter"
    /\ \E f \in {filterLocals(entries, filterRE)} :
          /\ filtered' = f.matchedEntries
          /\ sharedLines' = f.sharedLines
    /\ pc' = "print"
    /\ UNCHANGED <<filterRE, opened, consumed, tail, state, entries, entry,
                   change, detail, out, err>>

\* the print loop
WriteOutput ==
    /\ pc = "print"
    /\ out' = Written(filtered)
    /\ pc' = "done"
    /\ UNCHANGED <<sharedLines, filterRE, opened, consumed, tail, state, entries, entry,
                   change, detail, filtered, err>>

Next ==
    \/ CompileFilter
    \/ OpenInput
    \/ OpenFail
    \/ ReadLine
    \/ ReadEOF
    \/ ReadError
    \/ Filter
    \/ WriteOutput

Spec == Init /\ [][Next]_vars

-----------------------------------------------------------------------------
(* filterEntries on its own: run at the return of parseChangelog, for      *)
(* every Entry sequence of EntryTrees, read from its text.                 *)

\* the lines of a changelog of the entries es
TextLines(es) == Flatten([i \in 1..Len(es) |-> StringLines(es[i])])

\* x: an Entry sequence with the locals parseChangelog ends with on its text
InitFilter ==
    \E x \in {<<es, ParseLines(ParseStart, TextLines(es))>> :
                 es \in EntryTrees},
       re \in FilterPatterns :
        /\ x[2].err = Nil
        /\ x[2].entries = x[1]
        /\ pc = "filter"
        /\ filterRE = re
        /\ opened = TRUE
        /\ consumed = TextLines(x[1])
        /\ tail = ""
        /\ state = x[2].state
        /\ entries = x[2].entries
        /\ entry = x[2].entry
        /\ change = x[2].change
        /\ detail = x[2].detail
        /\ filtered = <<>>
        /\ sharedLines = {}
        /\ out = ""
        /\ err = Nil

NextFilter ==
    \/ Filter
    \/ WriteOutput

SpecFilter == InitFilter /\ [][NextFilter]_vars

-----------------------------------------------------------------------------
(* The read loop on its own: one line, of any text over the characters of  *)
(* the prefixes, read in each of the four states.                          *)

ProbeChars == {" ", "*", "-", "x"}

\* the texts of at most n characters
RECURSIVE ProbeTexts(_)
ProbeTexts(n) ==
    IF n = 0 THEN {""}
    ELSE Let(ProbeTexts(n - 1), LAMBDA S :
             S \cup {t \o c : t \in {u \in S : Len(u) = n - 1}, c \in ProbeChars})

ProbeLines == ProbeTexts(MaxProbe) \cup LineSet

\* the lines that bring the parser to Initial, InEntry, InChange, InDetail
ProbeSetups ==
    {SubSeq(<<"linux (1) jammy; urgency=medium",
              "  * Change A",
              "    - detail line 1">>, 1, n) : n \in 0..3}

InitPrefix ==
    \E su \in ProbeSetups : \E q \in {ParseLines(ParseStart, su)} :
        /\ pc = "parse"
        /\ filterRE = Compile(".").re
        /\ opened = TRUE
        /\ consumed = su
        /\ tail = ""
        /\ state = q.state
        /\ entries = q.entries
        /\ entry = q.entry
        /\ change = q.change
        /\ detail = q.detail
        /\ filtered = <<>>
        /\ sharedLines = {}
        /\ out = ""
        /\ err = Nil

\* one iteration of the read loop, on a line of ProbeLines
ReadProbe ==
    /\ pc = "parse"
    /\ consumed \in ProbeSetups
    /\ \E line \in ProbeLines : \E q \in {ParseStep(P, line \o "\n")} :
              /\ consumed' = Append(consumed, line)
              /\ state' = q.state
              /\ entry' = q.entry
              /\ change' = q.change
              /\ detail' = q.detail
              /\ entries' = ParseReturn(q)
              /\ IF q.err # Nil
                 THEN /\ err' = q.err
                      /\ pc' = "done"
                 ELSE /\ err' = err
                      /\ pc' = pc
    /\ UNCHANGED <<sharedLines, filterRE, opened, tail, filtered, out>>

NextPrefix == ReadProbe

SpecPrefix == InitPrefix /\ [][NextPrefix]_vars

-----------------------------------------------------------------------------
(* What a filtered tree should be, stated on the input tree alone.         *)

\* filterEntries has returned to run
FilterDone == pc \in {"print", "done"} /\ err = Nil

DotRE == [kind |-> "any", lit |-> ""]

LineMatches(re, d) == \E i \in 1..Len(d.Lines) : MatchString(re, d.Lines[i])

ChangeSurvives(re, c) ==
    \/ MatchString(re, c.Summary)
    \/ \E j \in 1..Len(c.Details) : LineMatches(re, c.Details[j])

EntrySurvives(re, e) ==
    \E i \in 1..Len(e.Changes) : ChangeSurvives(re, e.Changes[i])

KeptDetails(re, c) ==
    LET keep(d) == LineMatches(re, d) IN SelectSeq(c.Details, keep)

KeptChanges(re, e) ==
    LET keep(c) == ChangeSurvives(re, c) IN SelectSeq(e.Changes, keep)

KeptEntries(re, es) ==
    LET keep(e) == EntrySurvives(re, e) IN SelectSeq(es, keep)

\* the header and trailer fields of an Entry
HeadOf(e) ==
    <<e.Package, e.Version, e.Distributions, e.Metadata, e.MaintainerName,
      e.EmailAddress, e.Date>>

SummariesOf(cs) == [j \in 1..Len(cs) |-> cs[j].Summary]

\* the order-preserving sub-tree of the survivors
SubTree(re, es) ==
    LET ke == KeptEntries(re, es)
    IN  [k \in 1..Len(ke) |->
            [ke[k] EXCEPT !.Changes =
                LET kc == KeptChanges(re, ke[k])
                IN  [j \in 1..Len(kc) |->
                        [Summary |-> kc[j].Summary,
                         Details |-> KeptDetails(re, kc[j])]]]]

\* every entry has a change, every change a non-empty summary or a detail,
\* every detail a non-empty line
DotKeepsAll(es) ==
    \A i \in 1..Len(es) :
        /\ Len(es[i].Changes) >= 1
        /\ \A j \in 1..Len(es[i].Changes) :
              LET c == es[i].Changes[j]
              IN  /\ (c.Summary # "" \/ Len(c.Details) >= 1)
                  /\ \A k \in 1..Len(c.Details) :
                        \E l \in 1..Len(c.Details[k].Lines) :
                            c.Details[k].Lines[l] # ""

-----------------------------------------------------------------------------
(* The filter claims (specification SpecFilter).                           *)

\* C1 as stated: filtering with the pattern "." returns a sequence equal to
\* the input, also for entries without changes and changes with an empty
\* summary.
C1_FilterMonotonicity ==
    (FilterDone /\ filterRE = DotRE) => filtered = entries

\* C1 as amended: filtering with the pattern "." returns a sequence equal to
\* the input exactly when every entry has at least one change, every change
\* has a non-empty summary or at least one detail, and every detail has a
\* non-empty line; an entry without changes is dropped.
C1_FilterMonotonicityAmended ==
    (FilterDone /\ filterRE = DotRE) =>
        ((filtered = entries) <=> DotKeepsAll(entries))

C1_Witness ==
    /\ FilterDone
    /\ filterRE = DotRE
    /\ DotKeepsAll(entries)
    /\ Len(entries) = 2
    /\ \E i \in 1..2 : \E j \in 1..Len(entries[i].Changes) :
          Len(entries[i].Changes[j].Details) >= 1

\* C2: an input entry has a counterpart in the result iff the pattern matches
\* one of its summaries or one line of one of its details, it has exactly one
\* counterpart, every result entry has at least one change, and a pattern
\* that matches nothing yields an empty result.
C2_EntryElision ==
    FilterDone =>
        LET ke == KeptEntries(filterRE, entries)
        IN  /\ Len(filtered) = Len(ke)
            /\ \A k \in 1..Len(filtered) :
                  /\ Len(filtered[k].Changes) >= 1
                  /\ HeadOf(filtered[k]) = HeadOf(ke[k])
            /\ ((\A i \in 1..Len(entries) :
                    ~EntrySurvives(filterRE, entries[i])) => filtered = <<>>)

C2_Witness ==
    /\ FilterDone
    /\ Len(entries) = 2
    /\ Len(filtered) = 1
    /\ EntrySurvives(filterRE, entries[2])
    /\ Len(entries[1].Changes) >= 1

\* C3: the filtered entry contains a copy of a change, with its summary, iff
\* the pattern matches the summary or a line of one of its details, and a
\* surviving change appears exactly once.
C3_ChangeSurvival ==
    FilterDone =>
        LET ke == KeptEntries(filterRE, entries)
        IN  /\ Len(filtered) = Len(ke)
            /\ \A k \in 1..Len(filtered) :
                  SummariesOf(filtered[k].Changes)
                      = SummariesOf(KeptChanges(filterRE, ke[k]))

\* a change whose summary does not match and two of whose details match
C3_Witness ==
    /\ FilterDone
    /\ Len(filtered) >= 1
    /\ \E i \in 1..Len(entries) : \E j \in 1..Len(entries[i].Changes) :
          /\ ~MatchString(filterRE, entries[i].Changes[j].Summary)
          /\ Len(KeptDetails(filterRE, entries[i].Changes[j])) >= 2

\* C4: the details of a surviving change are exactly the details of the
\* original change of which a line matches, unchanged and in no other change.
C4_DetailOwnership ==
    FilterDone =>
        LET ke == KeptEntries(filterRE, entries)
        IN  /\ Len(filtered) = Len(ke)
            /\ \A k \in 1..Len(filtered) :
                  LET kc == KeptChanges(filterRE, ke[k])
                  IN  /\ Len(filtered[k].Changes) = Len(kc)
                      /\ \A j \in 1..Len(kc) :
                            filtered[k].Changes[j].Details
                                = KeptDetails(filterRE, kc[j])

\* the first entry survives by a summary, the second by a detail only
C4_Witness ==
    /\ FilterDone
    /\ Len(entries) = 2
    /\ Len(filtered) = 2
    /\ \E j \in 1..Len(entries[1].Changes) :
          MatchString(filterRE, entries[1].Changes[j].Summary)
    /\ \A j \in 1..Len(entries[2].Changes) :
          ~MatchString(filterRE, entries[2].Changes[j].Summary)

\* C5: every result entry has the package, version, distributions, metadata,
\* maintainer name, email address and date of the input entry that owns its
\* changes and details.
C5_AncestorPreservation ==
    FilterDone =>
        LET ke == KeptEntries(filterRE, entries)
        IN  \A k \in 1..Len(filtered) :
                /\ k <= Len(ke)
                /\ filtered[k].Package = ke[k].Package
                /\ filtered[k].Version = ke[k].Version
                /\ filtered[k].Distributions = ke[k].Distributions
                /\ filtered[k].Metadata = ke[k].Metadata
                /\ filtered[k].MaintainerName = ke[k].MaintainerName
                /\ filtered[k].EmailAddress = ke[k].EmailAddress
                /\ filtered[k].Date = ke[k].Date

\* the survivor is the second of two entries with different fields
C5_Witness ==
    /\ FilterDone
    /\ Len(entries) = 2
    /\ HeadOf(entries[1]) # HeadOf(entries[2])
    /\ Len(filtered) = 1
    /\ HeadOf(filtered[1]) = HeadOf(entries[2])
    /\ Len(entries[1].Changes) >= 1

\* C6: the result is the order-preserving sub-tree of the input: the
\* surviving entries, changes and details in their original relative order,
\* none of them twice.
C6_OrderPreserving ==
    FilterDone => filtered = SubTree(filterRE, entries)

\* two different entries survive
C6_Witness ==
    /\ FilterDone
    /\ Len(filtered) = 2
    /\ HeadOf(filtered[1]) # HeadOf(filtered[2])

-----------------------------------------------------------------------------
(* The text that has been read, line by line.                              *)

\* parseChangelog is running or has returned without an error
ParseGoing == pc \in {"parse", "filter", "print", "done"} /\ opened /\ err = Nil

\* the line the step reads
LineRead == consumed'[Len(consumed')]

ReadsLine == pc = "parse" /\ consumed' # consumed

HasAnyPrefix(line) ==
    \/ HasPrefix(line, changePrefix)
    \/ HasPrefix(line, detailHeadPrefix)
    \/ HasPrefix(line, detailTailPrefix)
    \/ HasPrefix(line, maintainerLinePrefix)

\* the positions of the trailer-prefixed lines
TrailerIdx(ls) ==
    {i \in 1..Len(ls) : HasPrefix(ls[i], maintainerLinePrefix)}

\* the position of the k-th trailer-prefixed line
KthTrailer(ls, k) ==
    CHOOSE i \in TrailerIdx(ls) :
        Cardinality({j \in TrailerIdx(ls) : j <= i}) = k

\* the position of the header of the k-th entry: the first non-blank line
\* after the trailer before it
KthHeader(ls, k) ==
    LET from == IF k = 1 THEN 1 ELSE KthTrailer(ls, k - 1) + 1
    IN  CHOOSE i \in from..Len(ls) :
            ls[i] # "" /\ \A j \in from..(i - 1) : ls[j] = ""

\* the summaries of the change-bullet lines of ls
BulletSummaries(ls) ==
    LET bullet(l) == HasPrefix(l, changePrefix)
        bs == SelectSeq(ls, bullet)
    IN  [i \in 1..Len(bs) |-> From(bs[i], Len(changePrefix) + 1)]

\* the number of detail-head lines of ls that follow a change-bullet line
OwnedDetailHeads(ls) ==
    Cardinality({i \in 1..Len(ls) :
                    /\ HasPrefix(ls[i], detailHeadPrefix)
                    /\ \E j \in 1..(i - 1) : HasPrefix(ls[j], changePrefix)})

RECURSIVE CountDetails(_)
CountDetails(cs) ==
    IF cs = <<>> THEN 0 ELSE Len(Head(cs).Details) + CountDetails(Tail(cs))

\* the non-blank lines of the whole text
NonBlankText ==
    LET nonblank(l) == l # ""
    IN  SelectSeq(consumed \o <<tail>>, nonblank)

-----------------------------------------------------------------------------
(* The parser claims (specification Spec).                                 *)

\* C7 as stated: for a text that parseChangelog accepts and that ends after
\* a trailer line, the renderings of the parsed entries carry every
\* non-blank line of the text unchanged, and nothing else.
C7_RoundTrip ==
    (ParseGoing /\ pc # "parse" /\ state = parseStateInitial /\ tail = "")
        => TextLines(entries) = NonBlankText

\* C8: at every point of a parse the result holds exactly one Entry per
\* trailer line parsed so far, in input order, each with the fields of its
\* header and trailer lines and the changes and details read between them;
\* the result grows only in the step that parses a trailer, by the
\* in-progress Entry.
C8_AtomicAppendState ==
    ParseGoing =>
        /\ Len(entries) = Cardinality(TrailerIdx(consumed))
        /\ \A k \in 1..Len(entries) :
              LET hd  == KthHeader(consumed, k)
                  tr  == KthTrailer(consumed, k)
                  h   == entryLineRegex(consumed[hd]).m
                  m   == maintainerLineRegex(consumed[tr]).m
                  seg == SubSeq(consumed, hd + 1, tr - 1)
              IN  /\ HeadOf(entries[k])
                        = <<h[1], h[2], h[3], h[4], m[1], m[2],
                            ParseDate(m[3]).t>>
                  /\ SummariesOf(entries[k].Changes) = BulletSummaries(seg)
                  /\ CountDetails(entries[k].Changes) = OwnedDetailHeads(seg)

C8_AtomicAppendStep ==
    (pc = "parse" /\ err' = Nil) =>
        \/ entries' = entries
        \/ /\ ReadsLine
           /\ HasPrefix(LineRead, maintainerLinePrefix)
           /\ state # parseStateInitial
           /\ state' = parseStateInitial
           /\ entries' = Append(entries, entry')
           /\ entry'.Changes = entry.Changes

C8_AtomicAppend == []C8_AtomicAppendState /\ [][C8_AtomicAppendStep]_vars

\* one entry with a change is in the result, the next is in progress
C8_Witness ==
    /\ pc = "parse"
    /\ Len(entries) = 1
    /\ Len(entries[1].Changes) >= 1
    /\ state = parseStateInChange

\* C9: a non-blank line read in state Initial that does not match the header
\* pattern, a line with one of the four prefixes included, makes
\* parseChangelog return the format error of that line and no entries.
C9_HeaderRejection ==
    [][(/\ ReadsLine
        /\ state = parseStateInitial
        /\ LineRead # ""
        /\ (~entryLineRegex(LineRead).ok \/ HasAnyPrefix(LineRead)))
       => (/\ pc' = "done"
           /\ err' = Error("invalid format entry line: " \o LineRead)
           /\ entries' = <<>>)]_vars

\* a change-bullet line is rejected after a completed entry
C9_Witness ==
    /\ pc = "done"
    /\ Len(consumed) >= 3
    /\ HasPrefix(consumed[Len(consumed)], changePrefix)
    /\ err = Error("invalid format entry line: " \o consumed[Len(consumed)])
    /\ \E i \in 1..(Len(consumed) - 1) :
          /\ HasPrefix(consumed[i], maintainerLinePrefix)
          /\ \A j \in (i + 1)..(Len(consumed) - 1) : consumed[j] = ""

\* C10: inside an entry, a trailer-prefixed line that fails the trailer
\* pattern or whose date does not parse ends the parse with an error and no
\* entries; after an error no line is read, and run has no entries, no
\* filtered entries and no output.
C10_TrailerRejectionStep ==
    /\ (/\ ReadsLine
        /\ state # parseStateInitial
        /\ HasPrefix(LineRead, maintainerLinePrefix)
        /\ \/ ~maintainerLineRegex(LineRead).ok
           \/ ~ParseDate(maintainerLineRegex(LineRead).m[3]).ok)
       => (pc' = "done" /\ err' # Nil /\ entries' = <<>>)
    /\ err # Nil => (consumed' = consumed /\ entries' = entries)

C10_TrailerRejectionState ==
    err # Nil => (pc = "done" /\ entries = <<>> /\ filtered = <<>> /\ out = "")

C10_TrailerRejection ==
    []C10_TrailerRejectionState /\ [][C10_TrailerRejectionStep]_vars

\* a trailer with an unparseable date is rejected after a completed entry
C10_Witness ==
    /\ pc = "done"
    /\ err = Error("parse date: not-a-date, cannot parse")
    /\ \E i \in 1..(Len(consumed) - 1) :
          maintainerLineRegex(consumed[i]).ok
    /\ state # parseStateInitial

\* parseChangelog has returned entries, nil to run
ParseReturned == pc \in {"filter", "print", "done"} /\ opened /\ err = Nil

\* C11 as stated: parseChangelog returns without an error only when the
\* parse has ended in state Initial; a stream that ends in InEntry, InChange
\* or InDetail is rejected with an error.
C11_TruncatedRejected == ParseReturned => state = parseStateInitial

\* the regexp.Compile error of a -filter argument that does not compile
CompileFailed ==
    \E src \in PatternSet :
        /\ ~Compile(src).ok
        /\ err = Error("error parsing regexp: " \o src)

\* C12: when the pattern does not compile, run ends at once with that error:
\* no input has been opened, no line read, nothing parsed, filtered or
\* written; and whenever the input is open the pattern has compiled.
C12_PatternFirstState ==
    /\ CompileFailed =>
          /\ pc = "done"
          /\ filterRE = Nil
          /\ ~opened
          /\ consumed = <<>> /\ tail = ""
          /\ state = parseStateInitial /\ entries = <<>> /\ entry = Nil
          /\ filtered = <<>>
          /\ out = ""
    /\ (opened \/ pc \in {"parse", "filter", "print"}) =>
          (filterRE # Nil /\ ~CompileFailed)

\* the step that fails to compile ends the run, and nothing follows it
C12_PatternFirstStep ==
    /\ (pc = "compile" /\ filterRE' = Nil) => (pc' = "done" /\ CompileFailed')
    /\ CompileFailed => UNCHANGED vars

C12_PatternFirst == []C12_PatternFirstState /\ [][C12_PatternFirstStep]_vars

\* run has ended with the compile error of the pattern "("
C12_Witness ==
    /\ pc = "done"
    /\ err = Error("error parsing regexp: (")
    /\ ~opened
    /\ out = ""

\* C13: a detail-head line read in state InEntry raises no error and changes
\* nothing: the state stays InEntry, the in-progress Entry keeps its empty
\* changes sequence, the result and the current pointers are as before.
C13_DetailHeadIgnored ==
    [][(/\ ReadsLine
        /\ state = parseStateInEntry
        /\ HasPrefix(LineRead, detailHeadPrefix))
       => (/\ pc' = "parse"
           /\ err' = Nil
           /\ state' = parseStateInEntry
           /\ entry.Changes = <<>>
           /\ entry' = entry
           /\ entries' = entries
           /\ change' = change
           /\ detail' = detail)]_vars

\* a detail-head line has been read right after the header of the second
\* entry, and the parse goes on
C13_Witness ==
    /\ pc = "parse"
    /\ state = parseStateInEntry
    /\ Len(entries) = 1
    /\ Len(consumed) >= 4
    /\ HasPrefix(consumed[Len(consumed)], detailHeadPrefix)
    /\ entryLineRegex(consumed[Len(consumed) - 1]).ok

\* the rules of the switch that apply to a line in a state other than Initial
Applicable(st, line) ==
    \/ HasPrefix(line, changePrefix)
    \/ HasPrefix(line, maintainerLinePrefix)
    \/ /\ st \in {parseStateInChange, parseStateInDetail}
       /\ HasPrefix(line, detailHeadPrefix)
    \/ /\ st = parseStateInDetail
       /\ HasPrefix(line, detailTailPrefix)

\* C14: outside Initial a non-blank line that no rule of the current state
\* applies to is skipped: no error, and the state, the in-progress Entry,
\* Change and Detail and the result are unchanged; a new Entry is started
\* only from state Initial, so the header fields of an Entry in progress
\* never change.
C14_SkipUnmatched ==
    [][/\ (/\ ReadsLine
           /\ state # parseStateInitial
           /\ LineRead # ""
           /\ ~Applicable(state, LineRead))
          => (/\ pc' = "parse"
              /\ err' = Nil
              /\ UNCHANGED <<state, entries, entry, change, detail>>)
       /\ (ReadsLine /\ state # parseStateInitial)
          => (/\ entry'.Package = entry.Package
              /\ entry'.Version = entry.Version
              /\ entry'.Distributions = entry.Distributions
              /\ entry'.Metadata = entry.Metadata)
       /\ (ReadsLine /\ state' = parseStateInEntry /\ state # parseStateInEntry)
          => state = parseStateInitial]_vars

\* a header-shaped line and a detail-tail line have been read after a
\* change-bullet line, and the parse is still in that Change
C14_Witness ==
    /\ pc = "parse"
    /\ state = parseStateInChange
    /\ Len(consumed) = 4
    /\ HasPrefix(consumed[2], changePrefix)
    /\ entryLineRegex(consumed[3]).ok
    /\ HasPrefix(consumed[4], detailTailPrefix)
    /\ Len(entry.Changes) = 1

\* the text of a detail-head or detail-tail line, both prefixes being six long
DetailText(line) == From(line, Len(detailHeadPrefix) + 1)

\* C15: an accepted detail-head line adds a new Detail, holding its text, at
\* the end of the last Change of the in-progress Entry; an accepted
\* detail-tail line adds its text at the end of the last Detail of that
\* Change; a detail-tail line read in InChange is attached nowhere; none of
\* them touches the result.
C15_DetailAttachStep ==
    LET n == Len(entry.Changes)
        m == Len(entry.Changes[n].Details)
    IN  /\ (/\ ReadsLine
            /\ state \in {parseStateInChange, parseStateInDetail}
            /\ HasPrefix(LineRead, detailHeadPrefix))
           => (/\ entry' = [entry EXCEPT !.Changes[n].Details =
                               Append(@, [Lines |-> <<DetailText(LineRead)>>])]
               /\ state' = parseStateInDetail
               /\ entries' = entries
               /\ err' = Nil)
        /\ (/\ ReadsLine
            /\ state = parseStateInDetail
            /\ HasPrefix(LineRead, detailTailPrefix))
           => (/\ entry' = [entry EXCEPT !.Changes[n].Details[m].Lines =
                               Append(@, DetailText(LineRead))]
               /\ state' = parseStateInDetail
               /\ entries' = entries
               /\ err' = Nil)
        /\ (/\ ReadsLine
            /\ state = parseStateInChange
            /\ HasPrefix(LineRead, detailTailPrefix))
           => (/\ entry' = entry
               /\ state' = parseStateInChange
               /\ entries' = entries
               /\ err' = Nil)

\* change and detail point to the last Change and the last Detail of the
\* Entry in progress
C15_DetailAttachState ==
    (pc = "parse" /\ state \in {parseStateInChange, parseStateInDetail}) =>
        /\ change = [ent |-> Len(entries) + 1, idx |-> Len(entry.Changes)]
        /\ state = parseStateInDetail =>
              detail = [ent |-> Len(entries) + 1, chg |-> Len(entry.Changes),
                        idx |-> Len(entry.Changes[Len(entry.Changes)].Details)]

C15_DetailAttach ==
    []C15_DetailAttachState /\ [][C15_DetailAttachStep]_vars

\* the second Change of the Entry in progress has a Detail of two lines, the
\* first Change has none
C15_Witness ==
    /\ pc = "parse"
    /\ state = parseStateInDetail
    /\ Len(entry.Changes) = 2
    /\ entry.Changes[1].Details = <<>>
    /\ Len(entry.Changes[2].Details) = 1
    /\ Len(entry.Changes[2].Details[1].Lines) = 2

\* C16: an Entry of the result never changes: every step of the parse that
\* does not end it with an error leaves each Entry already in the result as
\* it was, whatever line is read and whatever pointer is written through,
\* and so do filterEntries and the print loop.
C16_AppendedFrozen ==
    [][/\ (pc = "parse" /\ err' = Nil)
          => \A k \in 1..Len(entries) :
                /\ k <= Len(entries')
                /\ entries'[k] = entries[k]
       /\ pc \in {"filter", "print"} => entries' = entries]_vars

\* the result holds an Entry with a Change, and the Entry after it has got a
\* Change of its own
C16_Witness ==
    /\ pc = "parse"
    /\ Len(entries) = 1
    /\ Len(entries[1].Changes) = 1
    /\ state = parseStateInChange
    /\ Len(entry.Changes) = 1
    /\ change = [ent |-> 2, idx |-> 1]

\* C17 as stated: after filterEntries the input is what the parser returned
\* and no Detail of the result has the line sequence of a Detail of the
\* input as its own.
C17_IndependentTree ==
    FilterDone =>
        /\ entries = ParseReturn(ParseLines(ParseStart, consumed))
        /\ sharedLines = {}

\* C18 as stated: when the stream ends with an unterminated line, the
\* entries returned are those of the same stream with a newline added at its
\* end, whenever that stream parses.
C18_UnterminatedLine ==
    (ParseReturned /\ tail # "") =>
        LET q == ParseLines(ParseStart, Append(consumed, tail))
        IN  q.err = Nil => entries = q.entries

\* the four prefixes, by the rule they belong to
PrefixOf ==
    [change  |-> changePrefix,     head    |-> detailHeadPrefix,
     tail    |-> detailTailPrefix, trailer |-> maintainerLinePrefix]

\* the rules each case of the switch has
RulesOf(st) ==
    CASE st = parseStateInEntry  -> {"change", "trailer"}
      [] st = parseStateInChange -> {"change", "head", "trailer"}
      [] st = parseStateInDetail -> {"change", "head", "tail", "trailer"}
      [] OTHER                   -> {}

\* the orders the four prefix tests can be made in
PrefixOrders ==
    {o \in [1..4 -> DOMAIN PrefixOf] : \A i, j \in 1..4 : o[i] = o[j] => i = j}

\* the switch with the prefix tests of its case made in the order o
ProcessOrdered(p, line, o) ==
    LET hit == {i \in 1..4 : /\ o[i] \in RulesOf(p.state)
                             /\ HasPrefix(line, PrefixOf[o[i]])}
    IN  IF p.state = parseStateInitial THEN ProcessLine(p, line)
        ELSE IF hit = {} THEN p
        ELSE Let(o[CHOOSE i \in hit : \A j \in hit : i <= j], LAMBDA rule :
                 CASE rule = "change"  -> processChangeLine(p, line)
                   [] rule = "head"    -> processDetailHeadLine(p, line)
                   [] rule = "tail"    -> processDetailTailLine(p, line)
                   [] rule = "trailer" -> processMaintainerLine(p, line))

\* C19: no line starts with two of the four prefixes, and the line read is
\* handled as the switch handles it whatever the order of the prefix tests:
\* the same state, Entry, pointers, result and error.
C19_PrefixesExclusive ==
    [][(ReadsLine /\ LineRead # "")
       => /\ Cardinality({r \in DOMAIN PrefixOf :
                             HasPrefix(LineRead, PrefixOf[r])}) <= 1
          /\ \A o \in PrefixOrders :
                \E q \in {ProcessOrdered(P, LineRead, o)} :
                    /\ q.state = state'
                    /\ q.entry = entry'
                    /\ q.change = change'
                    /\ q.detail = detail'
                    /\ ParseReturn(q) = entries'
                    /\ IF q.err = Nil THEN err' = Nil ELSE err' = q.err]_vars

\* a text of six blanks has been read in InDetail as a detail-tail line
C19_Witness ==
    /\ pc = "parse"
    /\ state = parseStateInDetail
    /\ Len(consumed) = 4
    /\ consumed[4] = detailTailPrefix
    /\ entry.Changes[1].Details[1].Lines = <<"detail line 1", "">>

====
